---- MODULE Spec2Model ----
(***************************************************************************)
(* Haptic Feedback API (src/main.py): the text-to-haptic pattern           *)
(* generator, the cache-key derivation, the in-memory pattern cache and    *)
(* the three HTTP handlers that use them.                                  *)
(*                                                                         *)
(* Encoding.  A text is a sequence of one-character strings.  A float      *)
(* preference is held in tenths (speed 1.0 is 10, intensity 0.8 is 8); for *)
(* every speed s/10 with s in 1..30 and every base duration of TIMING,     *)
(* Python's int(base / speed_factor) equals (base * 10) \div s.            *)
(* The three glyphs used by HAPTIC_PATTERNS are named DOT (U+2022),        *)
(* DASH (U+002D, the hyphen) and ENDASH (U+2013).                          *)
(*                                                                         *)
(* Three specifications share the variables:                               *)
(*   SpecGen   one run of _generate_haptic_pattern, one appended           *)
(*             instruction per step;                                       *)
(*   Spec      the HTTP handlers, each request handled atomically;         *)
(*   SpecConc  the handlers run by concurrent threads, the cache lookup,   *)
(*             the generation and the cache store being separate steps.    *)
(***************************************************************************)
EXTENDS Integers, Sequences, FiniteSets, TLC

\* ------------------------------------------------------------------ bounds
MaxLen == 2

\* ------------------------------------------------------------ symbol table
DOT == "dot"
DASH == "dash"
ENDASH == "endash"

HAPTIC_PATTERNS ==
    ("A" :> <<DOT, DASH>>) @@ ("B" :> <<DOT, ENDASH, DOT, ENDASH>>) @@
    ("C" :> <<DOT, DOT, DASH, DOT>>) @@ ("D" :> <<DOT, DOT, DOT>>) @@
    ("E" :> <<DOT>>) @@ ("F" :> <<DOT, DOT, DOT, DASH>>) @@
    ("G" :> <<DASH, DASH, DOT>>) @@
    ("H" :> <<DOT, DOT, DOT, DOT>>) @@ ("I" :> <<DOT, DOT>>) @@
    ("J" :> <<DOT, DASH, DASH, DASH>>) @@
    ("K" :> <<DASH, DOT, DASH>>) @@ ("L" :> <<DOT, DASH, DOT, DOT>>) @@
    ("M" :> <<DASH, DASH>>) @@
    ("N" :> <<DASH, DOT>>) @@ ("O" :> <<DASH, DASH, DASH>>) @@
    ("P" :> <<DOT, DASH, DASH, DOT>>) @@
    ("Q" :> <<DASH, DASH, DOT, DASH>>) @@ ("R" :> <<DOT, DASH, DOT>>) @@
    ("S" :> <<DOT, ENDASH, DOT>>) @@
    ("T" :> <<DASH>>) @@ ("U" :> <<DOT, DOT, DASH>>) @@
    ("V" :> <<DOT, DOT, DOT, DASH>>) @@
    ("W" :> <<DOT, DASH, DASH>>) @@ ("X" :> <<DASH, DOT, DOT, DASH>>) @@
    ("Y" :> <<DASH, DOT, DASH, DASH>>) @@
    ("Z" :> <<DASH, DASH, DOT, DOT>>) @@ (" " :> <<" ">>) @@
    ("#" :> <<DASH>>) @@
    ("0" :> <<DOT, DASH, DOT>>) @@
    ("1" :> <<DOT>>) @@
    ("2" :> <<DOT, DOT>>) @@
    ("3" :> <<DOT, DOT, DOT>>) @@
    ("4" :> <<DOT, DOT, DOT, DOT>>) @@
    ("5" :> <<DOT, DOT, DOT, ENDASH>>) @@
    ("6" :> <<DASH, DOT>>) @@
    ("7" :> <<DASH, DOT, DOT>>) @@
    ("8" :> <<DASH, DOT, DOT, DOT>>) @@
    ("9" :> <<DASH, DOT, DOT, DOT, DOT>>)

TIMING ==
    [dot |-> 100, dash |-> 300,
     letter_space |-> 200, word_space |-> 600, sentence_space |-> 900]

SymbolGap == 50

\* ------------------------------------------------------------- str.upper()
LowerCase ==
    <<"a", "b", "c", "d", "e", "f", "g", "h", "i", "j", "k", "l", "m",
      "n", "o", "p", "q", "r", "s", "t", "u", "v", "w", "x", "y", "z">>

UpperCase ==
    <<"A", "B", "C", "D", "E", "F", "G", "H", "I", "J", "K", "L", "M",
      "N", "O", "P", "Q", "R", "S", "T", "U", "V", "W", "X", "Y", "Z">>

UpperChar(c) ==
    IF \E n \in 1..Len(LowerCase) : LowerCase[n] = c
    THEN UpperCase[CHOOSE n \in 1..Len(LowerCase) : LowerCase[n] = c]
    ELSE c

Upper(text) == [n \in 1..Len(text) |-> UpperChar(text[n])]

\* ------------------------------------------------------------ instructions
\* int(base / speed_factor), the speed factor in tenths
Scaled(base, speed) == (base * 10) \div speed

Pause(d) == [type |-> "pause", duration |-> d]

Vibrate(d, level) == [type |-> "vibrate", duration |-> d, intensity |-> level]

\* Emit with line 153 ("total_duration += 50") left out
EmitGapUncounted(acc, instruction) ==
    [pattern |-> Append(acc.pattern, instruction),
     total |-> IF instruction = Pause(50)
               THEN acc.total ELSE acc.total + instruction.duration]

\* pattern.append(instruction); total_duration += its duration
Emit(acc, instruction) ==
    [pattern |-> Append(acc.pattern, instruction),
     total |-> acc.total + instruction.duration]

RECURSIVE EmitAll(_, _)
EmitAll(acc, instructions) ==
    IF instructions = <<>> THEN acc
    ELSE EmitAll(Emit(acc, Head(instructions)), Tail(instructions))

\* "if symbol in [DOT, DASH]": the vibration of one symbol of a code
SymbolVibration(symbol, speed, level) ==
    IF symbol \in {DOT, DASH}
    THEN <<Vibrate(Scaled(TIMING[symbol], speed), level)>>
    ELSE <<>>

\* "if symbol != char_pattern[-1]": the pause after the k-th symbol
SymbolPause(char_pattern, k) ==
    IF char_pattern[k] # char_pattern[Len(char_pattern)]
    THEN <<Pause(SymbolGap)>>
    ELSE <<>>

\* "if i < len(text) - 1 and text[i + 1] != ' '", i counted from 1 here
LetterSpace(text, i, speed) ==
    IF i < Len(text) /\ text[i + 1] # " "
    THEN <<Pause(Scaled(TIMING.letter_space, speed))>>
    ELSE <<>>

IsSentenceEnd(char) == char \in {".", "!", "?"}

IsSupported(char) == char \in DOMAIN HAPTIC_PATTERNS

RECURSIVE CodeInstructions(_, _, _, _)
\* the instructions of the symbols k.. of one character's code
CodeInstructions(char_pattern, k, speed, level) ==
    IF k > Len(char_pattern) THEN <<>>
    ELSE SymbolVibration(char_pattern[k], speed, level)
         \o SymbolPause(char_pattern, k)
         \o CodeInstructions(char_pattern, k + 1, speed, level)

\* the body of the loop over the characters, for the i-th character of the
\* uppercased text
CharInstructions(text, i, speed, level) ==
    IF IsSentenceEnd(text[i])
    THEN <<Pause(Scaled(TIMING.sentence_space, speed))>>
    ELSE IF text[i] = " "
    THEN <<Pause(Scaled(TIMING.word_space, speed))>>
    ELSE IF IsSupported(text[i])
    THEN CodeInstructions(HAPTIC_PATTERNS[text[i]], 1, speed, level)
         \o LetterSpace(text, i, speed)
    ELSE <<>>

RECURSIVE GenerateFrom(_, _, _, _, _)
GenerateFrom(text, i, speed, level, acc) ==
    IF i > Len(text)
    THEN Emit(acc, Pause(Scaled(TIMING.sentence_space, speed)))
    ELSE GenerateFrom(text, i + 1, speed, level,
                      EmitAll(acc, CharInstructions(text, i, speed, level)))

\* _generate_haptic_pattern(text, speed_factor, intensity) as a function:
\* the pair (pattern, total_duration) it returns
GenerateHapticPattern(text, speed, level) ==
    GenerateFrom(Upper(text), 1, speed, level, [pattern |-> <<>>, total |-> 0])

\* ------------------------------------------------------------------- state
VARIABLES
    gen,                   \* the locals of a run of _generate_haptic_pattern
    haptic_pattern_cache,  \* the module-level dict: cache key -> result
    request,               \* the request handled last (Spec)
    response,              \* the response returned to it (Spec)
    invoked,               \* the parts of the service that request ran
    last_clear,            \* the keys the latest /cache/clear removed
    stored,                \* the keys stored since the latest /cache/clear
    previous,              \* the response to the request before the last one,
                           \* kept when the last request repeated that one
    thread                 \* the request each server thread handles (SpecConc)

vars == <<gen, haptic_pattern_cache, request, response, invoked, last_clear,
          stored, previous, thread>>

NoRequest == [kind |-> "none"]

NoResponse == [status |-> 0]

Idle == [pc |-> "idle"]

EmptyCache == [key \in {} |-> NoResponse]

\* -------------------------------------------- _generate_haptic_pattern runs
GenChars == {"s", "O", "c", " ", ".", "@"}

RECURSIVE TextsUpTo(_, _)
TextsUpTo(chars, n) ==
    IF n = 0 THEN {<<>>}
    ELSE LET shorter == TextsUpTo(chars, n - 1)
         IN  shorter \cup {Append(t, c) : t \in shorter, c \in chars}

GenTexts ==
    TextsUpTo(GenChars, MaxLen)
    \cup {<<c>> : c \in DOMAIN HAPTIC_PATTERNS}
    \cup {<<"S", "O", "S">>}

GenSpeeds == {1, 7, 10, 30}

GenIntensities == {0, 8}

InitGen ==
    /\ \E text \in GenTexts, speed \in GenSpeeds, level \in GenIntensities :
          gen = [pc |-> "char", text |-> Upper(text), speed_factor |-> speed,
                 intensity |-> level, i |-> 1, k |-> 1,
                 pattern |-> <<>>, total |-> 0, unsupported_chars |-> {}]
    /\ haptic_pattern_cache = EmptyCache
    /\ request = NoRequest
    /\ response = NoResponse
    /\ invoked = {}
    /\ last_clear = {}
    /\ stored = {}
    /\ previous = NoResponse
    /\ thread = <<>>

GenChar == gen.text[gen.i]

GenUnchanged ==
    UNCHANGED <<haptic_pattern_cache, request, response, invoked, last_clear,
                stored, previous, thread>>

\* zero or one instruction appended to the run's pattern, with its duration
\* added to the running total
GenEmit(instructions) ==
    LET acc == EmitAll([pattern |-> gen.pattern, total |-> gen.total],
                       instructions)
    IN  [gen EXCEPT !.pattern = acc.pattern, !.total = acc.total]

GenSentencePause ==
    /\ gen.pc = "char" /\ gen.i <= Len(gen.text)
    /\ IsSentenceEnd(GenChar)
    /\ gen' = [GenEmit(<<Pause(Scaled(TIMING.sentence_space,
                                      gen.speed_factor))>>)
                  EXCEPT !.i = gen.i + 1]
    /\ GenUnchanged

GenWordSpace ==
    /\ gen.pc = "char" /\ gen.i <= Len(gen.text)
    /\ ~IsSentenceEnd(GenChar) /\ GenChar = " "
    /\ gen' = [GenEmit(<<Pause(Scaled(TIMING.word_space, gen.speed_factor))>>)
                  EXCEPT !.i = gen.i + 1]
    /\ GenUnchanged

GenBeginCode ==
    /\ gen.pc = "char" /\ gen.i <= Len(gen.text)
    /\ ~IsSentenceEnd(GenChar) /\ GenChar # " " /\ IsSupported(GenChar)
    /\ gen' = [gen EXCEPT !.pc = "vibrate", !.k = 1]
    /\ GenUnchanged

GenSkipUnsupported ==
    /\ gen.pc = "char" /\ gen.i <= Len(gen.text)
    /\ ~IsSentenceEnd(GenChar) /\ GenChar # " " /\ ~IsSupported(GenChar)
    /\ gen' = [gen EXCEPT !.i = gen.i + 1,
                          !.unsupported_chars = @ \cup {GenChar}]
    /\ GenUnchanged

GenVibrate ==
    /\ gen.pc = "vibrate"
    /\ gen' = [GenEmit(SymbolVibration(HAPTIC_PATTERNS[GenChar][gen.k],
                                       gen.speed_factor, gen.intensity))
                  EXCEPT !.pc = "pause"]
    /\ GenUnchanged

GenSymbolPause ==
    /\ gen.pc = "pause"
    /\ gen' = [GenEmit(SymbolPause(HAPTIC_PATTERNS[GenChar], gen.k))
                  EXCEPT !.pc = IF gen.k < Len(HAPTIC_PATTERNS[GenChar])
                                THEN "vibrate" ELSE "letter",
                         !.k = gen.k + 1]
    /\ GenUnchanged

GenLetterSpace ==
    /\ gen.pc = "letter"
    /\ gen' = [GenEmit(LetterSpace(gen.text, gen.i, gen.speed_factor))
                  EXCEPT !.pc = "char", !.i = gen.i + 1]
    /\ GenUnchanged

GenEndPause ==
    /\ gen.pc = "char" /\ gen.i > Len(gen.text)
    /\ gen' = [GenEmit(<<Pause(Scaled(TIMING.sentence_space,
                                      gen.speed_factor))>>)
                  EXCEPT !.pc = "done"]
    /\ GenUnchanged

NextGen ==
    \/ GenSentencePause
    \/ GenWordSpace
    \/ GenBeginCode
    \/ GenSkipUnsupported
    \/ GenVibrate
    \/ GenSymbolPause
    \/ GenLetterSpace
    \/ GenEndPause

SpecGen == InitGen /\ [][NextGen]_vars

\* the stepwise run and the function agree on the returned pair
GenAgrees ==
    gen.pc = "done" =>
        LET r == GenerateFrom(gen.text, 1, gen.speed_factor, gen.intensity,
                              [pattern |-> <<>>, total |-> 0])
        IN  gen.pattern = r.pattern /\ gen.total = r.total

\* --------------------------------------------------- translate_text_to_haptic
MinSpeed == 1

MaxSpeed == 30

DefaultSpeed == 10

MinIntensity == 0

MaxIntensity == 10

DefaultIntensity == 8

\* ValidSpeed clamping to the nearer end of the range instead
ClampedSpeed(speed) ==
    IF speed < 1 THEN 1 ELSE IF speed > 30 THEN 30 ELSE speed

\* "if not (0.1 <= speed_factor <= 3.0): speed_factor = 1.0"
ValidSpeed(speed) ==
    IF MinSpeed <= speed /\ speed <= MaxSpeed THEN speed ELSE DefaultSpeed

\* "if not (0.0 <= intensity <= 1.0): intensity = 0.8"
ValidIntensity(level) ==
    IF MinIntensity <= level /\ level <= MaxIntensity
    THEN level ELSE DefaultIntensity

\* GenerateCacheKey without the normalisation of the text's case
CaseSensitiveKey(text, speed, level) ==
    [intensity |-> level, speed |-> speed, text |-> text]

\* _generate_cache_key: the serialised, sorted parameters.  The MD5 digest of
\* that string and the "haptic_pattern:" prefix are taken to be injective, so
\* the key is identified with the parameters it is the digest of.
GenerateCacheKey(text, speed, level) ==
    [intensity |-> level, speed |-> speed, text |-> Upper(text)]

\* response_data of a cache miss
ResponseData(text, speed, level) ==
    LET generated == GenerateHapticPattern(text, speed, level)
    IN  [pattern |-> generated.pattern,
         totalDuration |-> generated.total,
         characterCount |-> Len(text),
         text |-> text,
         cached |-> FALSE]

\* Put binding the name to a new dict that holds the new entry alone
PutAlone(cache, cache_key, entry) ==
    [key \in {cache_key} |-> entry]

\* haptic_pattern_cache[cache_key] = entry
Put(cache, cache_key, entry) ==
    [key \in DOMAIN cache \cup {cache_key} |->
        IF key = cache_key THEN entry ELSE cache[key]]

\* MarkCached with the assignment of line 210 left out
NotMarked(cache, cache_key) == cache

\* "cached_result['cached'] = True": cached_result is the dict the cache
\* holds, not a copy of it
MarkCached(cache, cache_key) ==
    [cache EXCEPT ![cache_key].cached = TRUE]

\* translate_text_to_haptic run without interruption: the result it returns,
\* the cache it leaves and the parts it ran
TranslateTextToHaptic(cache, text, speed_factor, intensity, use_cache) ==
    LET speed == ValidSpeed(speed_factor)
        level == ValidIntensity(intensity)
        cache_key == GenerateCacheKey(text, speed, level)
        response_data == ResponseData(text, speed, level)
    IN  IF use_cache /\ cache_key \in DOMAIN cache
        THEN [cache |-> MarkCached(cache, cache_key),
              result |-> MarkCached(cache, cache_key)[cache_key],
              stored |-> {},
              invoked |-> {"orchestrator"}]
        ELSE [cache |-> IF use_cache
                        THEN Put(cache, cache_key, response_data)
                        ELSE cache,
              result |-> response_data,
              stored |-> IF use_cache THEN {cache_key} ELSE {},
              invoked |-> {"orchestrator", "generator"}]

\* ----------------------------------------------------------- HTTP requests
\* the JSON bodies posted to /haptic_translate/: no body, a body without
\* "text", and texts with the preferences (speed, intensity) tried with them
TextRequest(text, speed, level, use_cache) ==
    [kind |-> "translate", has_body |-> TRUE, has_text |-> TRUE,
     text |-> text, speed |-> speed, intensity |-> level,
     use_cache |-> use_cache]

Preferences ==
    {<<DefaultSpeed, DefaultIntensity>>, <<5, 3>>,
     <<50, DefaultIntensity>>, <<DefaultSpeed, 15>>}

TranslateRequests ==
    {[TextRequest(<<>>, DefaultSpeed, DefaultIntensity, TRUE)
         EXCEPT !.has_body = FALSE, !.has_text = FALSE],
     [TextRequest(<<>>, DefaultSpeed, DefaultIntensity, TRUE)
         EXCEPT !.has_text = FALSE],
     TextRequest(<<>>, DefaultSpeed, DefaultIntensity, TRUE)}
    \cup {TextRequest(<<" ">>, DefaultSpeed, DefaultIntensity, use_cache) :
             use_cache \in BOOLEAN}
    \cup {TextRequest(text, p[1], p[2], use_cache) :
             text \in {<<"s">>, <<"S">>}, p \in Preferences,
             use_cache \in BOOLEAN}

Init ==
    /\ gen = Idle
    /\ haptic_pattern_cache = EmptyCache
    /\ request = NoRequest
    /\ response = NoResponse
    /\ invoked = {}
    /\ last_clear = {}
    /\ stored = {}
    /\ previous = NoResponse
    /\ thread = <<>>

\* POST /haptic_translate/
HapticTranslate(req) ==
    /\ request' = req
    /\ previous' = IF req = request THEN response ELSE NoResponse
    /\ IF ~req.has_body
       THEN /\ response' = [status |-> 400, error |-> "JSON data is required"]
            /\ invoked' = {}
            /\ UNCHANGED <<haptic_pattern_cache, stored>>
       ELSE IF ~req.has_text \/ req.text = <<>>
       THEN /\ response' = [status |-> 400, error |-> "Text field is required"]
            /\ invoked' = {}
            /\ UNCHANGED <<haptic_pattern_cache, stored>>
       ELSE LET done == TranslateTextToHaptic(haptic_pattern_cache, req.text,
                            req.speed, req.intensity, req.use_cache)
            IN  /\ response' = [status |-> 200, body |-> done.result]
                /\ invoked' = done.invoked
                /\ haptic_pattern_cache' = done.cache
                /\ stored' = stored \cup done.stored
    /\ UNCHANGED <<gen, last_clear, thread>>

\* ClearCache emptying a local dict: the count is reported, the entries stay
ClearCacheKeepsEntries ==
    /\ request' = [kind |-> "clear"]
    /\ response' = [status |-> 200,
                    removed |-> Cardinality(DOMAIN haptic_pattern_cache),
                    cache_size |-> 0]
    /\ last_clear' = DOMAIN haptic_pattern_cache
    /\ previous' = NoResponse
    /\ invoked' = {}
    /\ UNCHANGED <<gen, haptic_pattern_cache, stored, thread>>

\* POST /cache/clear
ClearCache ==
    /\ request' = [kind |-> "clear"]
    /\ response' = [status |-> 200,
                    removed |-> Cardinality(DOMAIN haptic_pattern_cache),
                    cache_size |-> 0]
    /\ haptic_pattern_cache' = EmptyCache
    /\ last_clear' = DOMAIN haptic_pattern_cache
    /\ stored' = {}
    /\ previous' = NoResponse
    /\ invoked' = {}
    /\ UNCHANGED <<gen, thread>>

\* GET /cache/status (the sample of keys it also lists is left out)
CacheStatus ==
    /\ request' = [kind |-> "status"]
    /\ response' = [status |-> 200,
                    cache_entries |-> Cardinality(DOMAIN haptic_pattern_cache)]
    /\ invoked' = {}
    /\ previous' = NoResponse
    /\ UNCHANGED <<gen, haptic_pattern_cache, last_clear, stored, thread>>

Next ==
    \/ \E req \in TranslateRequests : HapticTranslate(req)
    \/ ClearCache
    \/ CacheStatus

Spec == Init /\ [][Next]_vars

\* ------------------------------------------------------ concurrent requests
\* app.run() serves every request on a thread of its own.  A step is one
\* operation on the shared dict (get, item assignment, clear, len), each of
\* which the interpreter runs without interruption.  /cache/status only reads
\* and is left out.
Threads == {"t1", "t2"}

ConcRequests ==
    {TextRequest(<<>>, DefaultSpeed, DefaultIntensity, TRUE)}
    \cup {TextRequest(text, p[1], p[2], use_cache) :
             text \in {<<"s">>, <<"S">>},
             p \in {<<DefaultSpeed, DefaultIntensity>>, <<5, 3>>,
                    <<50, DefaultIntensity>>},
             use_cache \in BOOLEAN}

InitConc ==
    /\ gen = Idle
    /\ haptic_pattern_cache = EmptyCache
    /\ request = NoRequest
    /\ response = NoResponse
    /\ invoked = {}
    /\ last_clear = {}
    /\ stored = {}
    /\ previous = NoResponse
    /\ thread = [t \in Threads |-> Idle]

ConcUnchanged == UNCHANGED <<gen, request, response, invoked, previous>>

\* a thread's reference cached_result stops denoting the dict the cache holds
\* under cache_key once that key is cleared or assigned again
Detached(keys) ==
    [t \in Threads |->
        IF thread[t].pc = "hit" /\ thread[t].cache_key \in keys
        THEN [thread[t] EXCEPT !.live = FALSE]
        ELSE thread[t]]

\* haptic_translate up to the call of translate_text_to_haptic, and the
\* validation of the preferences in it; a request without body or text is
\* answered 400 and the thread is free again
Receive(t, req) ==
    /\ thread[t].pc = "idle"
    /\ thread' = [thread EXCEPT ![t] =
          IF ~req.has_body \/ ~req.has_text \/ req.text = <<>>
          THEN Idle
          ELSE [pc |-> IF req.use_cache THEN "lookup" ELSE "generate",
                text |-> req.text,
                speed |-> ValidSpeed(req.speed),
                intensity |-> ValidIntensity(req.intensity),
                use_cache |-> req.use_cache,
                cache_key |-> GenerateCacheKey(req.text, ValidSpeed(req.speed),
                                  ValidIntensity(req.intensity)),
                live |-> FALSE,
                response_data |-> NoResponse]]
    /\ UNCHANGED <<haptic_pattern_cache, last_clear, stored>>
    /\ ConcUnchanged

\* cached_result = haptic_pattern_cache.get(cache_key)
Lookup(t) ==
    /\ thread[t].pc = "lookup"
    /\ thread' = [thread EXCEPT ![t] =
          IF thread[t].cache_key \in DOMAIN haptic_pattern_cache
          THEN [@ EXCEPT !.pc = "hit", !.live = TRUE]
          ELSE [@ EXCEPT !.pc = "generate"]]
    /\ UNCHANGED <<haptic_pattern_cache, last_clear, stored>>
    /\ ConcUnchanged

\* cached_result['cached'] = True; return cached_result
Hit(t) ==
    /\ thread[t].pc = "hit"
    /\ haptic_pattern_cache' =
          IF thread[t].live
          THEN MarkCached(haptic_pattern_cache, thread[t].cache_key)
          ELSE haptic_pattern_cache
    /\ thread' = [thread EXCEPT ![t] = Idle]
    /\ UNCHANGED <<last_clear, stored>>
    /\ ConcUnchanged

\* pattern, total_duration = self._generate_haptic_pattern(...);
\* response_data = {...}; without use_cache it is returned at once
Generate(t) ==
    /\ thread[t].pc = "generate"
    /\ thread' = [thread EXCEPT ![t] =
          IF thread[t].use_cache
          THEN [@ EXCEPT !.pc = "store",
                         !.response_data =
                             ResponseData(thread[t].text, thread[t].speed,
                                          thread[t].intensity)]
          ELSE Idle]
    /\ UNCHANGED <<haptic_pattern_cache, last_clear, stored>>
    /\ ConcUnchanged

\* haptic_pattern_cache[cache_key] = response_data.copy(); return response_data
Store(t) ==
    /\ thread[t].pc = "store"
    /\ haptic_pattern_cache' =
          Put(haptic_pattern_cache, thread[t].cache_key,
              thread[t].response_data)
    /\ stored' = stored \cup {thread[t].cache_key}
    /\ thread' = [Detached({thread[t].cache_key}) EXCEPT ![t] = Idle]
    /\ UNCHANGED last_clear
    /\ ConcUnchanged

\* cache_size = len(haptic_pattern_cache)
ClearBegin(t) ==
    /\ thread[t].pc = "idle"
    /\ thread' = [thread EXCEPT ![t] =
          [pc |-> "clear",
           cache_size |-> Cardinality(DOMAIN haptic_pattern_cache)]]
    /\ UNCHANGED <<haptic_pattern_cache, last_clear, stored>>
    /\ ConcUnchanged

\* haptic_pattern_cache.clear(); return
ClearDo(t) ==
    /\ thread[t].pc = "clear"
    /\ haptic_pattern_cache' = EmptyCache
    /\ last_clear' = DOMAIN haptic_pattern_cache
    /\ stored' = {}
    /\ thread' = [Detached(DOMAIN haptic_pattern_cache) EXCEPT ![t] = Idle]
    /\ ConcUnchanged

NextConc ==
    \E t \in Threads :
        \/ \E req \in ConcRequests : Receive(t, req)
        \/ Lookup(t)
        \/ Hit(t)
        \/ Generate(t)
        \/ Store(t)
        \/ ClearBegin(t)
        \/ ClearDo(t)

SpecConc == InitConc /\ [][NextConc]_vars

\* ---------------------------------------------------------------- claims
RECURSIVE SumDurations(_)
SumDurations(instructions) ==
    IF instructions = <<>> THEN 0
    ELSE Head(instructions).duration + SumDurations(Tail(instructions))

RECURSIVE Trim(_)
\* the text without its leading and trailing spaces
Trim(text) ==
    IF text = <<>> THEN <<>>
    ELSE IF Head(text) = " " THEN Trim(Tail(text))
    ELSE IF text[Len(text)] = " " THEN Trim(SubSeq(text, 1, Len(text) - 1))
    ELSE text

Accepted(req, resp) == req.kind = "translate" /\ resp.status = 200

\* the key of the normalised triple of a request
KeyOf(req) ==
    [intensity |-> IF 0 <= req.intensity /\ req.intensity <= 10
                   THEN req.intensity ELSE 8,
     speed |-> IF 1 <= req.speed /\ req.speed <= 30 THEN req.speed ELSE 10,
     text |-> Upper(req.text)]

\* C1: the pattern generated for a one-character text whose character is in
\* HAPTIC_PATTERNS (space excepted) is, before the end-of-message pause, one
\* vibration per symbol of the character's code with a 50 ms pause between
\* consecutive symbols: n vibrations and n - 1 pauses, alternating.
C1_PulsePerSymbol ==
    (/\ gen.pc = "done"
     /\ Len(gen.text) = 1
     /\ IsSupported(gen.text[1])
     /\ gen.text[1] # " ")
    => LET n == Len(HAPTIC_PATTERNS[gen.text[1]])
           body == SubSeq(gen.pattern, 1, Len(gen.pattern) - 1)
       IN  /\ Len(body) = 2 * n - 1
           /\ \A m \in 1..Len(body) :
                 IF m % 2 = 1 THEN body[m].type = "vibrate"
                 ELSE body[m] = Pause(50)

\* C2: every entry the cache holds has its cached flag false.
C2_StoredFlagFalse ==
    \A key \in DOMAIN haptic_pattern_cache :
        haptic_pattern_cache[key].cached = FALSE

\* C3: the text returned by a translate request is the text of that request
\* and characterCount is its length, on a miss and on a hit.
C3_EchoesRequestText ==
    Accepted(request, response) =>
        /\ response.body.text = request.text
        /\ response.body.characterCount = Len(request.text)

\* C4: at every point of a run of the generator, after each appended
\* instruction and at its return, the running total equals the sum of the
\* durations of the instructions in the pattern.
C4_TotalIsSum ==
    gen.pc # "idle" => gen.total = SumDurations(gen.pattern)

C4_Witness ==
    /\ gen.pc = "done"
    /\ "@" \in gen.unsupported_chars
    /\ \E m \in 1..Len(gen.pattern) : gen.pattern[m] = Pause(50)
    /\ \E m \in 1..Len(gen.pattern) : gen.pattern[m].type = "vibrate"

\* C5: when a request with use_cache that missed the cache is repeated at
\* once, the second response has the pattern, totalDuration, characterCount
\* and text of the first and differs from it in the cached flag alone, false
\* then true.
C5_Idempotent ==
    (/\ Accepted(request, response)
     /\ request.use_cache
     /\ previous.status = 200
     /\ previous.body.cached = FALSE)
    => /\ response.body.pattern = previous.body.pattern
       /\ response.body.totalDuration = previous.body.totalDuration
       /\ response.body.characterCount = previous.body.characterCount
       /\ response.body.text = previous.body.text
       /\ response.body.cached = TRUE

C5_Witness ==
    /\ Accepted(request, response)
    /\ request.use_cache
    /\ previous.status = 200
    /\ previous.body.cached = FALSE
    /\ response.body.cached = TRUE
    /\ Len(response.body.pattern) > 1

\* C6: a request with use_cache that follows at once a request with use_cache
\* whose text differs from its own at most in letter case and whose speed and
\* intensity are its own hits the cache; and every hit returns an entry made
\* for the request's own triple (uppercased text, speed, intensity).
C6_HitsOwnEntry ==
    Accepted(request, response) /\ response.body.cached
    => /\ Upper(response.body.text) = Upper(request.text)
       /\ response.body.pattern =
             GenerateHapticPattern(request.text, ValidSpeed(request.speed),
                                   ValidIntensity(request.intensity)).pattern

C6_SameKeyStep ==
    (/\ Accepted(request, response) /\ request.use_cache
     /\ Accepted(request', response') /\ request'.use_cache
     /\ Upper(request'.text) = Upper(request.text)
     /\ request'.speed = request.speed
     /\ request'.intensity = request.intensity)
    => response'.body.cached = TRUE

C6_CacheKey == [](C6_HitsOwnEntry) /\ [][C6_SameKeyStep]_vars

C6_Witness ==
    /\ Accepted(request, response)
    /\ response.body.cached
    /\ response.body.text # request.text
    /\ Cardinality(DOMAIN haptic_pattern_cache) > 1

\* C7: a clear leaves the cache empty and reports the number of entries held
\* before it; a status request reports the number of entries held, zero right
\* after a clear; a request with use_cache right after a clear misses the
\* cache and stores its entry.
C7_ClearStep ==
    /\ request'.kind = "clear" =>
          /\ haptic_pattern_cache' = EmptyCache
          /\ response'.removed = Cardinality(DOMAIN haptic_pattern_cache)
    /\ request'.kind = "status" =>
          /\ response'.cache_entries = Cardinality(DOMAIN haptic_pattern_cache)
          /\ request.kind = "clear" => response'.cache_entries = 0
    /\ (/\ request.kind = "clear"
        /\ Accepted(request', response') /\ request'.use_cache)
       => /\ response'.body.cached = FALSE
          /\ KeyOf(request') \in DOMAIN haptic_pattern_cache'

C7_Clear == [][C7_ClearStep]_vars

C7_Witness ==
    /\ Accepted(request, response)
    /\ request.use_cache
    /\ response.body.cached = FALSE
    /\ KeyOf(request) \in last_clear
    /\ DOMAIN haptic_pattern_cache = {KeyOf(request)}

\* C8: with concurrent requests and clears, the cache holds exactly the keys
\* stored since the latest clear (a store that follows the clear is kept, one
\* that precedes it is removed), and every entry is a complete result whose
\* pattern and totalDuration are the generator's for the triple of its key.
C8_ConsistentCache ==
    /\ DOMAIN haptic_pattern_cache = stored
    /\ \A key \in DOMAIN haptic_pattern_cache :
          LET entry == haptic_pattern_cache[key]
              generated ==
                  GenerateHapticPattern(key.text, key.speed, key.intensity)
          IN  /\ DOMAIN entry = {"pattern", "totalDuration", "characterCount",
                                 "text", "cached"}
              /\ entry.pattern = generated.pattern
              /\ entry.totalDuration = generated.total
              /\ Upper(entry.text) = key.text

\* a store slipped between the two steps of a clear, next to another entry
C8_Witness ==
    /\ \E t \in Threads :
          /\ thread[t].pc = "clear"
          /\ thread[t].cache_size < Cardinality(DOMAIN haptic_pattern_cache)
    /\ Cardinality(DOMAIN haptic_pattern_cache) > 1

\* C9: a translate request without body, without text, or whose text is empty
\* once trimmed is answered 400 without running the orchestrator or the
\* generator, and leaves the cache as it was.
C9_BlankStep ==
    (/\ request'.kind = "translate"
     /\ (\/ ~request'.has_body
         \/ ~request'.has_text
         \/ Trim(request'.text) = <<>>))
    => /\ response'.status = 400
       /\ invoked' = {}
       /\ haptic_pattern_cache' = haptic_pattern_cache

C9_BlankTextRejected == [][C9_BlankStep]_vars

\* C10: a translate request is answered with the pattern and totalDuration of
\* its text at its speed and intensity, a speed outside 0.1..3.0 counting as
\* 1.0 and an intensity outside 0.0..1.0 as 0.8, and with use_cache its entry
\* is under the key of those values.
C10_DefaultsReplaceInvalid ==
    Accepted(request, response) =>
        LET key == KeyOf(request)
            generated ==
                GenerateHapticPattern(request.text, key.speed, key.intensity)
        IN  /\ response.body.pattern = generated.pattern
            /\ response.body.totalDuration = generated.total
            /\ request.use_cache => key \in DOMAIN haptic_pattern_cache

C10_Witness ==
    /\ Accepted(request, response)
    /\ request.speed = 50
    /\ request.use_cache
    /\ response.body.cached = FALSE
    /\ DOMAIN haptic_pattern_cache =
          {[intensity |-> 8, speed |-> 10, text |-> <<"S">>]}

====
